---- MODULE Spec2Model ----
(***************************************************************************)
(* Model of configuration/instance_schedule.py: the InstanceSchedule       *)
(* object, its get_desired_state and get_usage methods.                    *)
(*                                                                         *)
(* Instants are whole seconds counted from 00:00 of day 0.  A time of day  *)
(* (a period's begintime / endtime) is a number of minutes after midnight. *)
(* Python's None is None for strings and NoTime for times and instants.    *)
(***************************************************************************)
EXTENDS Integers, Sequences, FiniteSets, TLC

VARIABLES periods, timezone, override_status, schedule_dt, _logger, call, pc, result, asked,
          history, threads, delivered

vars == <<periods, timezone, override_status, schedule_dt, _logger, call, pc, result, asked,
          history, threads, delivered>>

---------------------------------------------------------------------------
(* Values *)

None == "None"
NoTime == -1

STATE_UNKNOWN == "unknown"
STATE_ANY == "any"
STATE_STOPPED == "stopped"
STATE_RUNNING == "running"

OVERRIDE_STATUS_RUNNING == "running"
OVERRIDE_STATUS_STOPPED == "stopped"

SecondsPerMinute == 60
SecondsPerHour == 3600
SecondsPerDay == 86400
MinBillingSeconds == 60
EndOfDayMinute == 1439

---------------------------------------------------------------------------
(* Bounds of the model *)

\* the longest periods list of a schedule
MaxPeriods == 2
\* instants given to the operations lie on the days 0 .. MaxDay
MaxDay == 1

\* what a period can answer when asked for its state
PeriodStates == {STATE_UNKNOWN, STATE_ANY, STATE_STOPPED, STATE_RUNNING}
\* instance types
InstanceTypes == {"A", "B"}
\* the begintimes of the periods of the model, in minutes after midnight
BeginTimes == {NoTime, 540, 1020}
\* a period answers by the part of the day its (localized) instant lies in:
\* part k starts at minute DayParts[k]
DayParts == <<0, 540, 1020, 1439>>
\* the utc offsets (in minutes) of the schedule timezones of the model
Timezones == {0, 60}
\* times of day (in seconds) of the instants given to the operations
InputSeconds == {0, 64800}
Loggers == {None, "logger"}

PeriodName(i) == "p" \o ToString(i)

\* the period named by position i that answers states[k] in part k of the day
Period(i, begintime, endtime, states) ==
    [name |-> PeriodName(i), begintime |-> begintime, endtime |-> endtime,
     states |-> states]

\* the same answer all day
AllDay(s) == [k \in DOMAIN DayParts |-> s]
\* running from 09:00 to 17:00, stopped before and after
Window == [k \in DOMAIN DayParts |-> IF k = 2 THEN STATE_RUNNING ELSE STATE_STOPPED]

Entry(p, t) == [period |-> p, instancetype |-> t]

\* the {"period": ..., "instancetype": ...} entries that can stand at position i
\* of a periods list: with any instancetype, a period without begintime that is
\* always running, the period 09:00-17:00, a period with begintime 17:00 that
\* is running; or one of three periods that never run
EntriesAt(i) ==
    { Entry(Period(i, b, IF b = 540 THEN 1020 ELSE NoTime,
                   IF b = 540 THEN Window ELSE AllDay(STATE_RUNNING)), t) :
        b \in BeginTimes, t \in InstanceTypes \cup {None} }
      \cup { Entry(Period(i, 1020, NoTime, AllDay(STATE_ANY)), "B"),
             Entry(Period(i, 1020, NoTime, AllDay(STATE_STOPPED)), "B"),
             Entry(Period(i, NoTime, 540, AllDay(STATE_UNKNOWN)), "A") }

\* the periods lists of length n
PeriodLists(n) ==
    { s \in [1..n -> UNION { EntriesAt(i) : i \in 1..n }] : \A i \in 1..n : s[i] \in EntriesAt(i) }

\* the periods argument of the constructor: a list, or absent (periods=None)
PeriodsArgs ==
    { [none |-> FALSE, items |-> s] : s \in UNION { PeriodLists(n) : n \in 0..MaxPeriods } }
      \cup { [none |-> TRUE, items |-> <<>>] }

\* the longest periods list of a schedule whose usage is computed
MaxUsagePeriods == 2

\* the periods of the schedules whose usage is computed: begintime, endtime and
\* the answers in the four parts of the day.  Always running; running from
\* 09:00 to 17:00; running except from 09:00 to 17:00; running from 09:00,
\* stopped from 23:59 and indifferent otherwise; running in the last minute of
\* the day; running from 17:00; running until 09:00
UsageShapes ==
    { [begintime |-> NoTime, endtime |-> NoTime, states |-> AllDay(STATE_RUNNING)],
      [begintime |-> 540, endtime |-> 1020, states |-> Window],
      [begintime |-> 540, endtime |-> 1020,
       states |-> <<STATE_RUNNING, STATE_STOPPED, STATE_RUNNING, STATE_RUNNING>>],
      [begintime |-> 540, endtime |-> 1020,
       states |-> <<STATE_ANY, STATE_RUNNING, STATE_ANY, STATE_STOPPED>>],
      [begintime |-> NoTime, endtime |-> NoTime,
       states |-> <<STATE_STOPPED, STATE_STOPPED, STATE_STOPPED, STATE_RUNNING>>],
      [begintime |-> 1020, endtime |-> NoTime,
       states |-> <<STATE_STOPPED, STATE_STOPPED, STATE_RUNNING, STATE_RUNNING>>],
      [begintime |-> NoTime, endtime |-> 540,
       states |-> <<STATE_RUNNING, STATE_STOPPED, STATE_STOPPED, STATE_STOPPED>>] }

\* each with the instancetype B or with none
UsageEntriesAt(i) ==
    { Entry(Period(i, s.begintime, s.endtime, s.states), t) :
        s \in UsageShapes, t \in {None, "B"} }

UsagePeriodLists(n) ==
    { s \in [1..n -> UNION { UsageEntriesAt(i) : i \in 1..n }] :
        \A i \in 1..n : s[i] \in UsageEntriesAt(i) }

UsagePeriodsArgs ==
    { [none |-> FALSE, items |-> s] :
        s \in UNION { UsagePeriodLists(n) : n \in 0..MaxUsagePeriods } }

\* the schedule_dt of the schedules of the model
DefaultInstants == {0}
\* the instants given to get_desired_state: 16:30 of day 0
DesiredStateInstants == {59400}

Instants == { d * SecondsPerDay + s : d \in 0..MaxDay, s \in InputSeconds }

Instances ==
    [allow_resize : BOOLEAN, is_running : BOOLEAN, instancetype : InstanceTypes \cup {None}]

---------------------------------------------------------------------------
(* Dates and times *)

Date(t) == t \div SecondsPerDay

\* datetime.replace(hour=h, minute=m) with minute_of_day = 60 * h + m: the
\* date and the seconds are kept
Replace(t, minute_of_day) ==
    Date(t) * SecondsPerDay + minute_of_day * SecondsPerMinute + (t % SecondsPerMinute)

\* datetime.astimezone(tz): the wall clock of the instant in the zone
AsTimezone(t, tz) == t + tz * SecondsPerMinute

\* int(x / d) for integers x and d > 0: Python's int() truncates towards zero
TruncDiv(x, d) == IF x >= 0 THEN x \div d ELSE -((-x) \div d)

Max(a, b) == IF a >= b THEN a ELSE b

---------------------------------------------------------------------------
(* The Period collaborator (configuration/running_period.py, not part of   *)
(* this file): asked for its state at a localized instant it answers one   *)
(* of PeriodStates.  Its answer is a table over the parts of the day.      *)

DayPart(t) ==
    Cardinality({ k \in DOMAIN DayParts :
                    DayParts[k] * SecondsPerMinute <= t % SecondsPerDay })

PeriodState(p, localized_time) == p.states[DayPart(localized_time)]

---------------------------------------------------------------------------
(* InstanceSchedule.get_desired_state *)

\* the schedule object the methods run on
Self ==
    [name |-> "schedule", periods |-> periods, timezone |-> timezone, override_status |-> override_status,
     schedule_dt |-> schedule_dt]

get_check_time(self, time) ==
    LET check_time == IF time # NoTime THEN time ELSE self.schedule_dt
    IN  AsTimezone(check_time, self.timezone)

\* latest_starttime with the comparison of the begintimes turned around
latest_starttime_earliest(p1, p2) ==
    IF p1.period.begintime = NoTime THEN p2
    ELSE IF p2.period.begintime = NoTime THEN p1
    ELSE IF p1.period.begintime < p2.period.begintime THEN p1 ELSE p2

\* latest_starttime that compares no begintimes: the later entry of the list wins
latest_starttime_last(p1, p2) ==
    IF p1.period.begintime = NoTime THEN p2
    ELSE IF p2.period.begintime = NoTime THEN p1
    ELSE p2

latest_starttime(p1, p2) ==
    IF p1.period.begintime = NoTime THEN p2
    ELSE IF p2.period.begintime = NoTime THEN p1
    ELSE IF p1.period.begintime > p2.period.begintime THEN p1 ELSE p2

\* requires_adjust_instance_size that tests the current type, not the desired
\* type, for None
requires_adjust_current_type_set(desired_instance_type, checked_instance) ==
    /\ checked_instance.allow_resize
    /\ checked_instance.instancetype # None
    /\ checked_instance.is_running
    /\ desired_instance_type # checked_instance.instancetype

requires_adjust_instance_size(desired_instance_type, checked_instance) ==
    /\ checked_instance.allow_resize
    /\ desired_instance_type # None
    /\ checked_instance.is_running
    /\ desired_instance_type # checked_instance.instancetype

RECURSIVE reduce_loop(_, _, _)
\* the while loop of _reduce; i is the 0-based index of the source
reduce_loop(res, items, i) ==
    IF i < Len(items)
    THEN reduce_loop(latest_starttime(res, items[i + 1]), items, i + 1)
    ELSE res

_reduce(items) ==
    IF Len(items) = 0
    THEN [period |-> None, instancetype |-> None]
    ELSE reduce_loop(items[1], items, 1)

\* handle_running_state that takes the desired type whether or not the instance
\* allows resizing
handle_running_state_any_instance(inst, running) ==
    LET current_running_period == _reduce(running)
        desired_type == current_running_period.instancetype
        desired_state ==
            IF requires_adjust_instance_size(desired_type, inst)
            THEN STATE_STOPPED ELSE STATE_RUNNING
    IN  [state |-> desired_state, instancetype |-> desired_type,
         period |-> current_running_period.period.name]

handle_running_state(inst, running) ==
    LET current_running_period == _reduce(running)
        desired_type ==
            IF inst.allow_resize THEN current_running_period.instancetype ELSE None
        desired_state ==
            IF requires_adjust_instance_size(desired_type, inst)
            THEN STATE_STOPPED ELSE STATE_RUNNING
    IN  [state |-> desired_state, instancetype |-> desired_type,
         period |-> current_running_period.period.name]

\* handle_any_state that answers as if nothing had been found
handle_any_state_as_stopped == [state |-> STATE_STOPPED, instancetype |-> None, period |-> None]

handle_any_state == [state |-> STATE_ANY, instancetype |-> None, period |-> None]

handle_stopped_state == [state |-> STATE_STOPPED, instancetype |-> None, period |-> None]

\* handle_override_status that tests only that an override is set
handle_override_status_truthy(self) ==
    [state |-> IF self.override_status # None THEN STATE_RUNNING ELSE STATE_STOPPED,
     instancetype |-> None, period |-> "override_status"]

handle_override_status(self) ==
    [state |-> IF self.override_status = OVERRIDE_STATUS_RUNNING
               THEN STATE_RUNNING ELSE STATE_STOPPED,
     instancetype |-> None, period |-> "override_status"]

\* a call that returns ret after asking n periods for their state
Returns(ret, n) == [error |-> None, ret |-> ret, asked |-> n]
\* a call that ends in the exception e after asking n periods for their state
Raises(e, n) == [error |-> e, asked |-> n]

get_desired_state(self, instance, dt) ==
    IF self.override_status # None
    THEN Returns(handle_override_status(self), 0)
    ELSE
    LET localized_time == get_check_time(self, dt)
    IN  IF self.periods.none
        THEN Raises("TypeError", 0)  \* for p in self.periods, with periods None
        ELSE
        LET items == self.periods.items
            periods_with_desired_states ==
                [i \in 1..Len(items) |->
                    [period |-> items[i].period, instancetype |-> items[i].instancetype,
                     state |-> PeriodState(items[i].period, localized_time)]]
            periods_with_running_state ==
                SelectSeq(periods_with_desired_states, LAMBDA p : p.state = STATE_RUNNING)
            period_with_any_state ==
                SelectSeq(periods_with_desired_states, LAMBDA p : p.state = STATE_ANY)
        IN  IF Len(periods_with_running_state) > 0
            THEN Returns(handle_running_state(instance, periods_with_running_state), Len(items))
            ELSE IF Len(period_with_any_state) > 0
            THEN Returns(handle_any_state, Len(items))
            ELSE Returns(handle_stopped_state, Len(items))

---------------------------------------------------------------------------
(* InstanceSchedule.get_usage *)

\* the instance argument when none is given (instance=None)
NoInstance == [none |-> TRUE]
\* as_namedtuple("Instance", {"instance_str": "instance", "allow_resize": False})
PlaceholderInstance == [instance_str |-> "instance", allow_resize |-> FALSE]

running_seconds(startdt, stopdt) == Max(stopdt - startdt, MinBillingSeconds)

\* hours counted without the adjustment by one second
running_hours_unadjusted(startdt, stopdt) ==
    TruncDiv(stopdt - startdt, SecondsPerHour) + 1

running_hours(startdt, stopdt) == TruncDiv((stopdt - startdt) - 1, SecondsPerHour) + 1

\* the "instancetype" key is left out of the dictionary when inst_type is None
make_period(started_dt, stopped_dt, inst_type) ==
    [begin |-> started_dt, end |-> stopped_dt,
     billing_hours |-> running_hours(started_dt, stopped_dt),
     billing_seconds |-> running_seconds(started_dt, stopped_dt),
     instancetype |-> inst_type]

\* the instants of one entry of self.periods on the day of dt ("if begintime:"
\* is true of every time object, midnight included, from Python 3.5 on)
period_timeline(p, dt) ==
    IF p.period.begintime = NoTime /\ p.period.endtime = NoTime
    THEN {Replace(dt, 0), Replace(dt, EndOfDayMinute)}
    ELSE (IF p.period.begintime # NoTime THEN {Replace(dt, p.period.begintime)} ELSE {})
         \cup (IF p.period.endtime # NoTime THEN {Replace(dt, p.period.endtime)} ELSE {})

timeline(self, dt) ==
    {Replace(dt, 0)}
      \cup UNION { period_timeline(self.periods.items[i], dt) : i \in DOMAIN self.periods.items }

RECURSIVE sorted(_)
sorted(S) ==
    IF S = {} THEN <<>>
    ELSE LET m == CHOOSE x \in S : \A y \in S : x <= y
         IN  <<m>> \o sorted(S \ {m})

\* an assignment that leaves an entry already in the dictionary as it is
SetItem_keeps_first(d, key, value) ==
    IF key \in DOMAIN d THEN d
    ELSE [k \in DOMAIN d \cup {key} |-> IF k = key THEN value ELSE d[k]]

\* running_periods[key] = value
SetItem(d, key, value) ==
    [k \in DOMAIN d \cup {key} |-> IF k = key THEN value ELSE d[k]]

EmptyDict == [k \in {} |-> None]

\* the local variables of the loop over one day's timeline
\* (writes lists the assignments to running_periods in the order they are made)
DayStart ==
    [running_periods |-> EmptyDict, started |-> NoTime, starting_period |-> None,
     current_state |-> None, instance_type |-> None, asked |-> 0, error |-> None,
     writes |-> <<>>]

\* the assignment running_periods[key] = value, made in the loop ("walk") or in
\* the block after it ("end")
Write(key, value, at) == [key |-> key, value |-> value, at |-> at]

\* a walk that closes the open interval at every instant that is not running
walk_step_any_closes(self, inst, tm, w) ==
    LET r == get_desired_state(self, inst, tm)
    IN  IF r.error # None
        THEN [w EXCEPT !.error = r.error, !.asked = @ + r.asked]
        ELSE
        LET desired_state == r.ret.state
            w1 == [w EXCEPT !.instance_type = r.ret.instancetype, !.asked = @ + r.asked]
        IN  IF w.current_state = desired_state THEN w1
            ELSE IF desired_state = STATE_RUNNING
            THEN [w1 EXCEPT !.started = tm, !.current_state = STATE_RUNNING,
                            !.starting_period = r.ret.period]
            ELSE IF w.current_state = STATE_RUNNING
            THEN [w1 EXCEPT !.current_state = STATE_STOPPED,
                            !.running_periods =
                                SetItem(@, w.starting_period,
                                        make_period(w.started, tm, r.ret.instancetype)),
                            !.writes =
                                Append(@, Write(w.starting_period,
                                                make_period(w.started, tm, r.ret.instancetype),
                                                "walk"))]
            ELSE w1

\* one iteration of "for tm in sorted(list(timeline))"
walk_step(self, inst, tm, w) ==
    LET r == get_desired_state(self, inst, tm)
    IN  IF r.error # None
        THEN [w EXCEPT !.error = r.error, !.asked = @ + r.asked]
        ELSE
        LET desired_state == r.ret.state
            w1 == [w EXCEPT !.instance_type = r.ret.instancetype, !.asked = @ + r.asked]
        IN  IF w.current_state = desired_state THEN w1
            ELSE IF desired_state = STATE_RUNNING
            THEN [w1 EXCEPT !.started = tm, !.current_state = STATE_RUNNING,
                            !.starting_period = r.ret.period]
            ELSE IF desired_state = STATE_STOPPED /\ w.current_state = STATE_RUNNING
            THEN [w1 EXCEPT !.current_state = STATE_STOPPED,
                            !.running_periods =
                                SetItem(@, w.starting_period,
                                        make_period(w.started, tm, r.ret.instancetype)),
                            !.writes =
                                Append(@, Write(w.starting_period,
                                                make_period(w.started, tm, r.ret.instancetype),
                                                "walk"))]
            ELSE w1

RECURSIVE walk(_, _, _, _, _)
walk(self, inst, tl, i, w) ==
    IF i > Len(tl) \/ w.error # None THEN w
    ELSE walk(self, inst, tl, i + 1, walk_step(self, inst, tl[i], w))

\* the block after the loop: an interval still open is closed at 23:59 + 1 minute
close_day(dt, w) ==
    IF w.current_state = STATE_RUNNING
    THEN LET stopped == Replace(dt, EndOfDayMinute) + SecondsPerMinute
         IN  [w EXCEPT !.running_periods =
                           SetItem(@, w.starting_period,
                                   make_period(w.started, stopped, w.instance_type)),
                       !.writes =
                           Append(@, Write(w.starting_period,
                                           make_period(w.started, stopped, w.instance_type),
                                           "end"))]
    ELSE w

RECURSIVE SumOver(_, _)
\* sum([running_periods[k][field] for k in running_periods])
SumOver(d, field) ==
    IF DOMAIN d = {} THEN 0
    ELSE LET k == CHOOSE x \in DOMAIN d : TRUE
         IN  d[k][field] + SumOver([x \in DOMAIN d \ {k} |-> d[x]], field)

day_usage(running_periods) ==
    [running_periods |-> running_periods,
     billing_seconds |-> SumOver(running_periods, "billing_seconds"),
     billing_hours |-> SumOver(running_periods, "billing_hours")]

\* the local variables of get_usage: the result dictionary, keyed by date, the
\* number of periods asked for their state (and, by date, the assignments made
\* to running_periods)
UsageStart == [result |-> EmptyDict, asked |-> 0, writes |-> EmptyDict]

RECURSIVE usage_loop(_, _, _, _, _)
\* "while dt <= stop"
usage_loop(self, inst, dt, stop, u) ==
    IF ~(dt <= stop)
    THEN [error |-> None, ret |-> [schedule |-> self.name, usage |-> u.result],
          asked |-> u.asked, writes |-> u.writes]
    ELSE IF self.periods.none
    THEN Raises("TypeError", u.asked)  \* for p in self.periods, with periods None
    ELSE
    LET w == close_day(dt, walk(self, inst, sorted(timeline(self, dt)), 1, DayStart))
    IN  IF w.error # None
        THEN Raises(w.error, u.asked + w.asked)
        ELSE usage_loop(self, inst, dt + SecondsPerDay, stop,
                        [result |-> SetItem(u.result, Date(dt), day_usage(w.running_periods)),
                         asked |-> u.asked + w.asked,
                         writes |-> SetItem(u.writes, Date(dt), w.writes)])

\* get_usage that compares the dates of start and stop, not the instants
get_usage_compares_dates(self, start_dt, stop_dt, instance) ==
    LET stop == IF stop_dt # NoTime THEN stop_dt ELSE start_dt
        inst == IF instance # NoInstance THEN instance ELSE PlaceholderInstance
    IN  IF Date(start_dt) > Date(stop)
        THEN Raises("ValueError", 0)
        ELSE usage_loop(self, inst, start_dt, stop, UsageStart)

get_usage(self, start_dt, stop_dt, instance) ==
    LET stop == IF stop_dt # NoTime THEN stop_dt ELSE start_dt
        inst == IF instance # NoInstance THEN instance ELSE PlaceholderInstance
    IN  IF start_dt > stop
        THEN Raises("ValueError", 0)
        ELSE usage_loop(self, inst, start_dt, stop, UsageStart)

---------------------------------------------------------------------------
(* The state machine: a schedule is constructed, then one of its methods   *)
(* is called with the arguments in call and runs to its end.               *)

NoResult == [error |-> None, asked |-> 0]

\* the calls get_desired_state(instance, logger, dt)
DesiredStateCalls ==
    [op : {"get_desired_state"}, instance : Instances, logger : Loggers,
     dt : {NoTime} \cup DesiredStateInstants]

\* the calls get_usage(start_dt, stop_dt, instance, logger)
UsageCalls ==
    [op : {"get_usage"}, start_dt : Instants, stop_dt : Instants \cup {NoTime},
     instance : {NoInstance}, logger : Loggers]

\* the InstanceSchedule objects __init__ can construct, and the call to come
Init ==
    /\ periods \in PeriodsArgs
    /\ timezone \in Timezones
    /\ override_status \in {None, OVERRIDE_STATUS_RUNNING, OVERRIDE_STATUS_STOPPED}
    /\ schedule_dt \in DefaultInstants
    /\ _logger = None
    /\ call \in DesiredStateCalls \cup UsageCalls
    /\ pc = "call"
    /\ result = NoResult
    /\ asked = 0
    /\ history = <<>>
    /\ threads = <<>>
    /\ delivered = {}

\* the call that has returned: its arguments, its result and the schedule it
\* leaves
Returned == [call |-> call, self |-> Self, result |-> result]

GetDesiredState ==
    /\ pc = "call"
    /\ call.op = "get_desired_state"
    /\ LET r == get_desired_state(Self, call.instance, call.dt)
       IN  /\ _logger' = call.logger
           /\ result' = r
           /\ asked' = r.asked
    /\ pc' = "done"
    /\ UNCHANGED <<periods, timezone, override_status, schedule_dt, call, history, threads,
                   delivered>>

\* a get_usage that empties the periods list it iterates over
GetUsage_consumes_periods ==
    /\ pc = "call"
    /\ call.op = "get_usage"
    /\ LET r == get_usage(Self, call.start_dt, call.stop_dt, call.instance)
       IN  /\ _logger' = call.logger
           /\ result' = r
           /\ asked' = r.asked
    /\ pc' = "done"
    /\ periods' = [periods EXCEPT !.items = <<>>]
    /\ UNCHANGED <<timezone, override_status, schedule_dt, call, history, threads, delivered>>

GetUsage ==
    /\ pc = "call"
    /\ call.op = "get_usage"
    /\ LET r == get_usage(Self, call.start_dt, call.stop_dt, call.instance)
       IN  /\ _logger' = call.logger
           /\ result' = r
           /\ asked' = r.asked
    /\ pc' = "done"
    /\ UNCHANGED <<periods, timezone, override_status, schedule_dt, call, history, threads,
                   delivered>>

Next == GetDesiredState \/ GetUsage

Spec == Init /\ [][Next]_vars

\* the instances given to get_usage: none, or one that can be resized
UsageInstances ==
    { NoInstance,
      [allow_resize |-> TRUE, is_running |-> TRUE, instancetype |-> "A"],
      [allow_resize |-> TRUE, is_running |-> FALSE, instancetype |-> "A"] }

\* get_usage from 00:00:00 or 00:00:30 of day 0, for that day or up to day MaxDay
WalkCalls ==
    [op : {"get_usage"}, start_dt : {0, 30},
     stop_dt : {NoTime, MaxDay * SecondsPerDay + SecondsPerMinute},
     instance : UsageInstances, logger : {None}]

\* schedules whose periods change their answer during the day, and a call of
\* get_usage (or of get_desired_state at 16:30) to come
InitUsage ==
    /\ periods \in UsagePeriodsArgs
    /\ timezone = 0
    /\ override_status \in {None, OVERRIDE_STATUS_RUNNING}
    /\ schedule_dt \in DefaultInstants
    /\ _logger = None
    /\ call \in WalkCalls
                 \cup [op : {"get_desired_state"}, instance : UsageInstances \ {NoInstance},
                       logger : {None}, dt : DesiredStateInstants]
    /\ pc = "call"
    /\ result = NoResult
    /\ asked = 0
    /\ history = <<>>
    /\ threads = <<>>
    /\ delivered = {}

SpecUsage == InitUsage /\ [][Next]_vars

\* the longest sequence of calls made on one schedule object
MaxCalls == 3

\* calls for different ranges, instants, instances and loggers
RepeatCalls ==
    { [op |-> "get_usage", start_dt |-> 0, stop_dt |-> NoTime,
       instance |-> NoInstance, logger |-> None],
      [op |-> "get_usage", start_dt |-> 0, stop_dt |-> NoTime,
       instance |-> NoInstance, logger |-> "logger"],
      [op |-> "get_usage", start_dt |-> 30, stop_dt |-> SecondsPerDay + SecondsPerMinute,
       instance |-> [allow_resize |-> TRUE, is_running |-> TRUE, instancetype |-> "A"],
       logger |-> None],
      [op |-> "get_desired_state", dt |-> 59400,
       instance |-> [allow_resize |-> TRUE, is_running |-> TRUE, instancetype |-> "A"],
       logger |-> "logger"],
      [op |-> "get_desired_state", dt |-> NoTime,
       instance |-> [allow_resize |-> FALSE, is_running |-> FALSE, instancetype |-> None],
       logger |-> None] }

\* a schedule with at most one period, and the first call to come
InitRepeat ==
    /\ periods \in { [none |-> FALSE, items |-> s] :
                        s \in UsagePeriodLists(0) \cup UsagePeriodLists(1) }
    /\ timezone = 0
    /\ override_status = None
    /\ schedule_dt \in DefaultInstants
    /\ _logger = None
    /\ call \in RepeatCalls
    /\ pc = "call"
    /\ result = NoResult
    /\ asked = 0
    /\ history = <<>>
    /\ threads = <<>>
    /\ delivered = {}

\* the caller makes another call on the same object (history lists the calls
\* that came before)
NextCall ==
    /\ pc = "done"
    /\ Len(history) + 1 < MaxCalls
    /\ history' = Append(history, Returned)
    /\ call' \in RepeatCalls
    /\ pc' = "call"
    /\ UNCHANGED <<periods, timezone, override_status, schedule_dt, _logger, result, asked,
                   threads, delivered>>

NextRepeat == GetDesiredState \/ GetUsage \/ NextCall

SpecRepeat == InitRepeat /\ [][NextRepeat]_vars

---------------------------------------------------------------------------
(* Concurrent callers of get_desired_state on one schedule object.  Each     *)
(* caller runs the method statement by statement; self._logger is the one   *)
(* attribute they all write (line 194) and read (lines 79-80, 209).         *)

Callers == {1, 2}

\* self._log_debug(msg, ...)
LogSite(msg) == [kind |-> "log", msg |-> msg]
\* p["period"].get_desired_state(self._logger, localized_time): the period is
\* handed the logger stored on the schedule and writes its trace to it
PassSite(name) == [kind |-> "pass", msg |-> name]

\* the places where get_desired_state(instance, logger, dt) reads self._logger,
\* in the order it comes to them
trace(self, instance, dt) ==
    IF self.override_status # None
    THEN <<LogSite("DEBUG_OVERRIDE_STATUS")>>
    ELSE
    LET localized_time == get_check_time(self, dt)
        items == self.periods.items
        periods_with_desired_states ==
            [i \in 1..Len(items) |->
                [period |-> items[i].period, instancetype |-> items[i].instancetype,
                 state |-> PeriodState(items[i].period, localized_time)]]
        periods_with_running_state ==
            SelectSeq(periods_with_desired_states, LAMBDA p : p.state = STATE_RUNNING)
        period_with_any_state ==
            SelectSeq(periods_with_desired_states, LAMBDA p : p.state = STATE_ANY)
    IN  <<LogSite("DEBUG_USED_TIME_FOR_SCHEDULE")>>
          \o [i \in 1..Len(items) |-> PassSite(items[i].period.name)]
          \o (IF Len(periods_with_running_state) > 0
              THEN <<LogSite("DEBUG_ACTIVE_PERIOD_IN_SCHEDULE")>>
                     \o (IF Len(periods_with_running_state) > 1
                         THEN <<LogSite("DEBUG_USED_PERIOD")>> ELSE <<>>)
                     \o (IF handle_running_state(instance, periods_with_running_state).state
                              = STATE_STOPPED
                         THEN <<LogSite("DEBUG_SET_DESIRED_INSTANCE_TYPE")>> ELSE <<>>)
              ELSE IF Len(period_with_any_state) > 0
              THEN <<LogSite("DEBUG_STATE_ANY")>>
              ELSE <<LogSite("DEBUG_NO_RUNNING_PERIODS")>>)

\* a caller about to enter get_desired_state(instance, logger, dt)
Thread(logger, instance, dt) ==
    [pc |-> "start", logger |-> logger, instance |-> instance, dt |-> dt,
     sites |-> <<>>, result |-> NoResult]

\* the periods lists of the schedules called concurrently: none, one period
\* that always runs, the period 09:00-17:00 with type B before it
ConcurrentPeriods ==
    { <<>>,
      <<Entry(Period(1, NoTime, NoTime, AllDay(STATE_RUNNING)), None)>>,
      <<Entry(Period(1, 540, 1020, Window), "B"),
        Entry(Period(2, NoTime, NoTime, AllDay(STATE_RUNNING)), None)>> }

\* one schedule object and two callers: the first passes its logger, the
\* second its own logger or none
InitConcurrent ==
    /\ periods \in { [none |-> FALSE, items |-> s] : s \in ConcurrentPeriods }
    /\ timezone = 0
    /\ override_status \in {None, OVERRIDE_STATUS_RUNNING}
    /\ schedule_dt \in DefaultInstants
    /\ _logger = None
    /\ call = [op |-> "concurrent"]
    /\ pc = "threads"
    /\ result = NoResult
    /\ asked = 0
    /\ history = <<>>
    /\ \E l \in {None, "logger2"}, dt \in {NoTime} \cup DesiredStateInstants :
          threads =
            (1 :> Thread("logger1",
                         [allow_resize |-> TRUE, is_running |-> TRUE, instancetype |-> "A"],
                         dt))
            @@ (2 :> Thread(l,
                            [allow_resize |-> FALSE, is_running |-> FALSE,
                             instancetype |-> None],
                            NoTime))
    /\ delivered = {}

Unshared == <<periods, timezone, override_status, schedule_dt, call, pc, result, asked, history>>

\* line 194: self._logger = logger
SetLogger(t) ==
    /\ threads[t].pc = "start"
    /\ _logger' = threads[t].logger
    /\ threads' = [threads EXCEPT ![t].pc = "run",
                                  ![t].sites = trace(Self, threads[t].instance, threads[t].dt)]
    /\ UNCHANGED <<Unshared, delivered>>

\* line 79: if self._logger is not None
LogTest(t) ==
    /\ threads[t].pc = "run"
    /\ threads[t].sites # <<>>
    /\ Head(threads[t].sites).kind = "log"
    /\ threads' = IF _logger # None
                  THEN [threads EXCEPT ![t].pc = "use"]
                  ELSE [threads EXCEPT ![t].sites = Tail(@)]
    /\ UNCHANGED <<Unshared, _logger, delivered>>

\* line 80: self._logger.debug(msg, *args), which reads the attribute again
LogUse(t) ==
    /\ threads[t].pc = "use"
    /\ IF _logger = None
       THEN /\ threads' = [threads EXCEPT ![t].pc = "failed",
                                          ![t].result = Raises("AttributeError", 0)]
            /\ UNCHANGED delivered
       ELSE /\ threads' = [threads EXCEPT ![t].pc = "run", ![t].sites = Tail(@)]
            /\ delivered' = delivered \cup {[caller |-> t, sink |-> _logger]}
    /\ UNCHANGED <<Unshared, _logger>>

\* line 209: the next period is asked for its state with self._logger
PassLogger(t) ==
    /\ threads[t].pc = "run"
    /\ threads[t].sites # <<>>
    /\ Head(threads[t].sites).kind = "pass"
    /\ threads' = [threads EXCEPT ![t].sites = Tail(@)]
    /\ delivered' = IF _logger # None
                    THEN delivered \cup {[caller |-> t, sink |-> _logger]}
                    ELSE delivered
    /\ UNCHANGED <<Unshared, _logger>>

\* the return statement the call comes to
Return(t) ==
    /\ threads[t].pc = "run"
    /\ threads[t].sites = <<>>
    /\ threads' = [threads EXCEPT
                      ![t].pc = "done",
                      ![t].result = get_desired_state(Self, threads[t].instance, threads[t].dt)]
    /\ UNCHANGED <<Unshared, _logger, delivered>>

NextConcurrent ==
    \E t \in Callers :
        SetLogger(t) \/ LogTest(t) \/ LogUse(t) \/ PassLogger(t) \/ Return(t)

SpecConcurrent == InitConcurrent /\ [][NextConcurrent]_vars

TypeOK ==
    /\ pc \in {"call", "done"}
    /\ result.error \in {None, "TypeError", "ValueError"}
    /\ asked = result.asked

---------------------------------------------------------------------------
(* Properties *)

DoneDesiredState == pc = "done" /\ call.op = "get_desired_state"
DoneUsage == pc = "done" /\ call.op = "get_usage"

\* get_desired_state has asked the periods of a periods list for their state
Polled == DoneDesiredState /\ override_status = None /\ ~periods.none

\* the instant of the call in the timezone of the schedule
Localized ==
    (IF call.dt # NoTime THEN call.dt ELSE schedule_dt) + timezone * SecondsPerMinute

Begin(i) == periods.items[i].period.begintime
StateAt(i) == periods.items[i].period.states[DayPart(Localized)]
RunningIdx == { i \in DOMAIN periods.items : StateAt(i) = STATE_RUNNING }
AnyIdx == { i \in DOMAIN periods.items : StateAt(i) = STATE_ANY }

\* the running periods no running period starts later than; a period without
\* begintime (NoTime = -1) starts before every period that has one
Latest == { i \in RunningIdx : \A j \in RunningIdx : Begin(j) <= Begin(i) }

\* the entry of the periods list whose period is named in the result
Winner == periods.items[CHOOSE i \in DOMAIN periods.items :
                          periods.items[i].period.name = result.ret.period]

\* the desired type of the winning period for the instance of the call
DesiredType == IF call.instance.allow_resize THEN Winner.instancetype ELSE None

Orders(n) == { f \in [1..n -> 1..n] : \A i, j \in 1..n : i # j => f[i] # f[j] }

\* what get_desired_state returns with the periods list in the order f
Reordered(f) ==
    get_desired_state(
        [Self EXCEPT !.periods.items = [i \in DOMAIN periods.items |-> periods.items[f[i]]]],
        call.instance, call.dt)

OrderIndependent == \A f \in Orders(Len(periods.items)) : Reordered(f) = result

\* C1: with override_status set, get_desired_state returns running for the
\* override "running" and stopped otherwise, with period name "override_status"
\* and no instance type, and asks no period for its state, whatever the
\* periods (also with none), the instant and the instance.
C1_OverrideDecides ==
    (DoneDesiredState /\ override_status # None) =>
        /\ result.error = None
        /\ result.ret.state = IF override_status = OVERRIDE_STATUS_RUNNING
                              THEN STATE_RUNNING ELSE STATE_STOPPED
        /\ result.ret.period = "override_status"
        /\ result.ret.instancetype = None
        /\ asked = 0

\* C1 witness: an override "stopped" has decided over a schedule with a running
\* period.
C1_Witness ==
    /\ DoneDesiredState
    /\ override_status = OVERRIDE_STATUS_STOPPED
    /\ ~periods.none
    /\ RunningIdx # {}
    /\ result.ret.state = STATE_STOPPED

\* C2: without override, when periods report running, the period named in the
\* result is a running period, its type override is the one returned (for an
\* instance that allows resizing), and no running period has a later
\* begintime; a running period without begintime is named only if no running
\* period has one.
C2_LatestBeginWins ==
    (Polled /\ RunningIdx # {}) =>
        /\ result.error = None
        /\ \E i \in RunningIdx :
            /\ result.ret.period = periods.items[i].period.name
            /\ result.ret.instancetype =
                 (IF call.instance.allow_resize THEN periods.items[i].instancetype ELSE None)
            /\ \A j \in RunningIdx :
                 Begin(j) # NoTime => (Begin(i) # NoTime /\ Begin(i) >= Begin(j))

\* C2 witness: the first of several running periods has won, with the later
\* begintime.
C2_Witness ==
    /\ Polled
    /\ Cardinality(RunningIdx) >= 2
    /\ 1 \in RunningIdx
    /\ result.ret.period = PeriodName(1)
    /\ \E j \in RunningIdx : Begin(j) # NoTime /\ Begin(j) < Begin(1)

\* C3 as claimed: without override and with a running period, the result is
\* stopped exactly when allow_resize and is_running hold, the current type is
\* set and the desired type differs from it; otherwise it is running; the
\* desired type is returned.
C3_StoppedIffCurrentTypeSet ==
    (Polled /\ RunningIdx # {}) =>
        /\ result.ret.instancetype = DesiredType
        /\ result.ret.state =
             (IF /\ call.instance.allow_resize
                 /\ call.instance.is_running
                 /\ call.instance.instancetype # None
                 /\ DesiredType # call.instance.instancetype
              THEN STATE_STOPPED ELSE STATE_RUNNING)

\* C3 as amended: the result is stopped exactly when allow_resize and
\* is_running hold, the desired type is set (the winning period has a type
\* override) and it differs from the current type; otherwise it is running;
\* the desired type is returned.
C3_StoppedIffDesiredTypeSet ==
    (Polled /\ RunningIdx # {}) =>
        /\ result.ret.instancetype = DesiredType
        /\ result.ret.state =
             (IF /\ call.instance.allow_resize
                 /\ call.instance.is_running
                 /\ DesiredType # None
                 /\ DesiredType # call.instance.instancetype
              THEN STATE_STOPPED ELSE STATE_RUNNING)

\* C3 witness: a running instance of type A that allows resizing, a winning
\* period with the type override B, and the result stopped.
C3_Witness ==
    /\ Polled
    /\ RunningIdx # {}
    /\ call.instance = [allow_resize |-> TRUE, is_running |-> TRUE, instancetype |-> "A"]
    /\ Winner.instancetype = "B"
    /\ result.ret.state = STATE_STOPPED

\* C4 as claimed: get_desired_state returns the same for every order of the
\* periods list.
C4_OrderIndependent == (DoneDesiredState /\ ~periods.none) => OrderIndependent

\* C4 as amended: get_desired_state returns the same for every order of the
\* periods list when at most one running period has the latest begintime (with
\* no begintime among the running periods, when at most one is running); of
\* several running periods with the latest begintime the last of the list
\* wins.
C4_OrderIndependentWithoutTie ==
    Polled =>
        /\ Cardinality(Latest) <= 1 => OrderIndependent
        /\ Latest # {} =>
             result.ret.period =
                 periods.items[CHOOSE i \in Latest : \A j \in Latest : j <= i].period.name

\* C4 witness: several running periods with different begintimes, the list not
\* in the order of the begintimes, and a result that no reordering changes.
C4_Witness ==
    /\ Polled
    /\ Cardinality(RunningIdx) >= 2
    /\ Cardinality(Latest) = 1
    /\ 1 \in Latest
    /\ OrderIndependent

C6_AnyWithoutRunning ==
    (Polled /\ RunningIdx = {} /\ AnyIdx # {}) =>
        /\ result.error = None
        /\ result.ret = [state |-> STATE_ANY, instancetype |-> None, period |-> None]

\* C6 witness: any has been returned for a running instance over a period that
\* reports any and a period that reports stopped or unknown.
C6_Witness ==
    /\ Polled
    /\ RunningIdx = {}
    /\ AnyIdx # {}
    /\ AnyIdx # DOMAIN periods.items
    /\ call.instance.is_running
    /\ result.ret.state = STATE_ANY

\* C7: without override, when no period reports running and none reports any
\* (so for a schedule without periods), get_desired_state returns stopped with
\* no instance type and no period name.
C7_StoppedByDefault ==
    (DoneDesiredState /\ override_status = None /\ RunningIdx = {} /\ AnyIdx = {}) =>
        /\ result.error = None
        /\ result.ret = [state |-> STATE_STOPPED, instancetype |-> None, period |-> None]

\* The same for the schedules that have a periods list, the empty one included.
StoppedByDefaultWithPeriodsList ==
    (Polled /\ RunningIdx = {} /\ AnyIdx = {}) =>
        /\ result.error = None
        /\ result.ret = [state |-> STATE_STOPPED, instancetype |-> None, period |-> None]

\* C8: get_desired_state never ends in an error, also for a schedule
\* constructed without periods or with an empty periods list.
C8_NeverRaises == DoneDesiredState => result.error = None

\* The schedules get_desired_state ends in an error for: those constructed
\* without periods and without override_status.
RaisesOnlyWithoutPeriods ==
    DoneDesiredState => (result.error # None <=> (periods.none /\ override_status = None))

\* C9: get_usage with a stop before the start ends in the ValueError, returns
\* no usage record and asks no period for its state.
C9_InvalidRange ==
    (DoneUsage /\ call.stop_dt # NoTime /\ call.stop_dt < call.start_dt) =>
        /\ result.error = "ValueError"
        /\ "ret" \notin DOMAIN result
        /\ asked = 0

\* C9 witness: a stop earlier on the day of the start has been refused for a
\* schedule with a running period.
C9_Witness ==
    /\ DoneUsage
    /\ call.stop_dt # NoTime
    /\ call.stop_dt < call.start_dt
    /\ Date(call.stop_dt) = Date(call.start_dt)
    /\ ~periods.none
    /\ \E i \in DOMAIN periods.items : periods.items[i].period.states[1] = STATE_RUNNING
    /\ result.error = "ValueError"

\* C10: the usage record get_usage returns has exactly one entry for each day
\* from the day of the start to the day of the stop (the day of the start when
\* no stop is given), whatever the times of day of start and stop.
C10_EveryDayOfTheRange ==
    (DoneUsage /\ result.error = None) =>
        DOMAIN result.ret.usage =
            Date(call.start_dt) ..
                Date(IF call.stop_dt # NoTime THEN call.stop_dt ELSE call.start_dt)

\* The days get_usage does cover: those whose instant at the start's time of
\* day is not after the stop.
CoversDaysUpToStop ==
    (DoneUsage /\ result.error = None) =>
        LET stop == IF call.stop_dt # NoTime THEN call.stop_dt ELSE call.start_dt
        IN  DOMAIN result.ret.usage =
              { d \in Date(call.start_dt) .. Date(stop) :
                  call.start_dt + (d - Date(call.start_dt)) * SecondsPerDay <= stop }

---------------------------------------------------------------------------
(* get_usage: the walk over the instants of a day *)

\* get_usage has returned a usage record
UsageDone == DoneUsage /\ result.error = None

\* the instance get_usage resolves the instants for
UsageInstance == IF call.instance # NoInstance THEN call.instance ELSE PlaceholderInstance

\* the boundary instants of day d in ascending order, and what each resolves to
DayInstants(d) ==
    sorted(timeline(Self, call.start_dt + (d - Date(call.start_dt)) * SecondsPerDay))
Resolved(d, i) == get_desired_state(Self, UsageInstance, DayInstants(d)[i]).ret

RECURSIVE OpenedAt(_, _)
\* the index of the instant that opened the interval open after the first k
\* instants of day d, 0 when no interval is open: an interval opens at a running
\* instant when none is open and closes at a stopped one
OpenedAt(d, k) ==
    IF k = 0 THEN 0
    ELSE IF OpenedAt(d, k - 1) = 0
    THEN (IF Resolved(d, k).state = STATE_RUNNING THEN k ELSE 0)
    ELSE (IF Resolved(d, k).state = STATE_STOPPED THEN 0 ELSE OpenedAt(d, k - 1))

\* the indices of the instants of day d that close an interval, in order
Closings(d) ==
    SelectSeq([k \in 1..Len(DayInstants(d)) |-> k],
              LAMBDA k : OpenedAt(d, k - 1) # 0 /\ Resolved(d, k).state = STATE_STOPPED)

\* the intervals recorded for day d during the walk, in order
WalkWrites(d) == SelectSeq(result.writes[d], LAMBDA w : w.at = "walk")

\* C11: in the walk over a day's instants an interval opens at the first instant
\* that resolves to running while none is open and closes at the next instant
\* that resolves to stopped; an instant that resolves to any does neither.  Each
\* closed interval is recorded with the opening instant as begin, the closing
\* instant as end, under the name of the period that won at the opening instant.
C11_WalkOpensAndCloses ==
    UsageDone =>
        \A d \in DOMAIN result.writes :
            /\ Len(WalkWrites(d)) = Len(Closings(d))
            /\ \A j \in 1..Len(Closings(d)) :
                  LET c == Closings(d)[j]
                      o == OpenedAt(d, c - 1)
                      w == WalkWrites(d)[j]
                  IN  /\ w.key = Resolved(d, o).period
                      /\ w.value.begin = DayInstants(d)[o]
                      /\ w.value.end = DayInstants(d)[c]

\* C11 witness: an interval opened by one period has been closed and recorded
\* under that period's name although another period won at an instant in between.
C11_Witness ==
    /\ UsageDone
    /\ \E d \in DOMAIN result.writes : \E j \in 1..Len(Closings(d)) :
          LET c == Closings(d)[j]
              o == OpenedAt(d, c - 1)
          IN  /\ \E k \in (o + 1)..(c - 1) :
                    /\ Resolved(d, k).state = STATE_RUNNING
                    /\ Resolved(d, k).period # Resolved(d, o).period
              /\ WalkWrites(d)[j].key = Resolved(d, o).period
              /\ result.ret.usage[d].running_periods[Resolved(d, o).period].begin
                     = DayInstants(d)[o]

\* the intervals recorded by get_usage: every assignment to a running_periods map
\* and every interval of the running_periods it returns
Recorded ==
    UNION { { result.writes[d][j].value : j \in 1..Len(result.writes[d]) } :
              d \in DOMAIN result.writes }
      \cup UNION { { result.ret.usage[d].running_periods[k] :
                       k \in DOMAIN result.ret.usage[d].running_periods } :
                   d \in DOMAIN result.ret.usage }

\* C12: every interval recorded by get_usage, of s = end - begin seconds, has
\* billing_seconds = max(s, 60) and billing_hours = floor((s - 1) / 3600) + 1.
C12_Billing ==
    UsageDone =>
        \A i \in Recorded :
            LET s == i.end - i.begin
            IN  /\ i.billing_seconds = (IF s > 60 THEN s ELSE 60)
                /\ i.billing_hours = ((s - 1) \div 3600) + 1

\* C12 witness: get_usage has recorded an interval of 60 seconds, billed as 60
\* seconds and 1 hour, and an interval of whole hours, billed as that many.
C12_Witness ==
    /\ UsageDone
    /\ \E i \in Recorded :
          i.end - i.begin = 60 /\ i.billing_seconds = 60 /\ i.billing_hours = 1
    /\ \E i \in Recorded : \E h \in 2..24 :
          i.end - i.begin = h * 3600 /\ i.billing_hours = h

RECURSIVE SumWrites(_, _)
\* the sum of a field over the intervals assigned in ws
SumWrites(ws, field) ==
    IF ws = <<>> THEN 0 ELSE Head(ws).value[field] + SumWrites(Tail(ws), field)

\* C13: the billing_seconds and billing_hours of each day of the usage record
\* are the sums over all intervals closed during that day's walk, the one closed
\* at the end of the day included, also when two of them carry the same period
\* name.
C13_DayTotalsSumAllClosed ==
    UsageDone =>
        \A d \in DOMAIN result.ret.usage :
            /\ result.ret.usage[d].billing_seconds
                  = SumWrites(result.writes[d], "billing_seconds")
            /\ result.ret.usage[d].billing_hours
                  = SumWrites(result.writes[d], "billing_hours")

\* The totals of a day are the sums over the intervals of the running_periods
\* map of that day, which are all the closed intervals when no two of them carry
\* the same name.
DayTotalsSumKept ==
    UsageDone =>
        \A d \in DOMAIN result.ret.usage :
            LET day == result.ret.usage[d]
                ws == result.writes[d]
            IN  /\ day.billing_seconds = SumOver(day.running_periods, "billing_seconds")
                /\ day.billing_hours = SumOver(day.running_periods, "billing_hours")
                /\ (\A i, j \in 1..Len(ws) : ws[i].key = ws[j].key => i = j)
                      => /\ day.billing_seconds = SumWrites(ws, "billing_seconds")
                         /\ day.billing_hours = SumWrites(ws, "billing_hours")

---------------------------------------------------------------------------
(* Calls that follow each other on one schedule object *)

\* the calls that have returned on the schedule object, in order
Calls == IF pc = "done" THEN Append(history, Returned) ELSE history

\* C14: a get_usage call returns what an earlier get_usage call with the same
\* inputs returned on that object, whatever calls were made in between, and no
\* call changes a field of the schedule that a result depends on (name,
\* periods, timezone, override_status, schedule_dt).
C14_Idempotent ==
    /\ \A i, j \in 1..Len(Calls) :
          ( /\ i < j
            /\ Calls[i].call.op = "get_usage"
            /\ Calls[j].call.op = "get_usage"
            /\ Calls[i].call.start_dt = Calls[j].call.start_dt
            /\ Calls[i].call.stop_dt = Calls[j].call.stop_dt
            /\ Calls[i].call.instance = Calls[j].call.instance )
          => Calls[i].result = Calls[j].result
    /\ \A i \in 1..Len(Calls) : Calls[i].self = Self

\* C14 witness: get_usage has returned the same usage, with a running interval,
\* for the second time after a different call in between.
C14_Witness ==
    /\ pc = "done"
    /\ \E i, k, j \in 1..Len(Calls) :
          /\ i < k /\ k < j
          /\ Calls[i].call = Calls[j].call
          /\ Calls[k].call # Calls[i].call
          /\ Calls[i].call.op = "get_usage"
          /\ Calls[i].result.error = None
          /\ \E d \in DOMAIN Calls[i].result.ret.usage :
                Calls[i].result.ret.usage[d].billing_seconds > 0
          /\ Calls[j].result = Calls[i].result

---------------------------------------------------------------------------
(* Concurrent callers *)

\* C15: when two callers, each with its own logger, run get_desired_state on
\* the same schedule object at the same time, every trace message written for a
\* call goes to the logger of that call, never to the other caller's.
C15_OwnSink ==
    (\A t \in DOMAIN threads : threads[t].logger # None) =>
        \A d \in delivered : d.sink = threads[d.caller].logger

\* C16: when callers with and without a logger run get_desired_state on the
\* same schedule object at the same time, no call ends in an error and each
\* returns what it returns when it runs alone.
C16_NoErrorSameResult ==
    \A t \in DOMAIN threads :
        /\ threads[t].pc # "failed"
        /\ threads[t].result.error = None
        /\ threads[t].pc = "done" =>
              threads[t].result
                  = get_desired_state(Self, threads[t].instance, threads[t].dt)

\* A call that returns returns what it returns alone: the logger has no part
\* in the result.
ReturnsAsAlone ==
    \A t \in DOMAIN threads :
        threads[t].pc = "done" =>
            threads[t].result = get_desired_state(Self, threads[t].instance, threads[t].dt)

---------------------------------------------------------------------------
(* get_usage: the end of the day *)

\* the interval still open after the last instant of day d has been closed at
\* the instant stopped and recorded under the name of the period that opened
\* it; no interval has been closed at the end of a day that ends with none open
ClosedAtEndOfDay(d, stopped) ==
    LET ws == result.writes[d]
        o == OpenedAt(d, Len(DayInstants(d)))
    IN  IF o # 0
        THEN /\ ws # <<>>
             /\ ws[Len(ws)].at = "end"
             /\ ws[Len(ws)].key = Resolved(d, o).period
             /\ ws[Len(ws)].value.begin = DayInstants(d)[o]
             /\ ws[Len(ws)].value.end = stopped
             /\ result.ret.usage[d].running_periods[Resolved(d, o).period] = ws[Len(ws)].value
        ELSE \A j \in 1..Len(ws) : ws[j].at = "walk"

\* the intervals recorded for day d
RecordedOn(d) ==
    { result.writes[d][j].value : j \in 1..Len(result.writes[d]) }
      \cup { result.ret.usage[d].running_periods[k] :
               k \in DOMAIN result.ret.usage[d].running_periods }

\* C17: an interval still open when the walk over a day's instants ends is
\* closed at 00:00 of the next day and recorded under the name of the period
\* that opened it; every day starts with no interval open, so no recorded
\* interval ends after 00:00 of the next day.
C17_ClosedAtMidnight ==
    UsageDone =>
        \A d \in DOMAIN result.ret.usage :
            /\ ClosedAtEndOfDay(d, (d + 1) * SecondsPerDay)
            /\ \A i \in RecordedOn(d) : i.end <= (d + 1) * SecondsPerDay

\* The open interval is closed one minute after 23:59 of dt, the instant the
\* loop over the days holds for that day, which carries the seconds of the
\* start instant: at 00:00 of the next day only when the start has none.
ClosedOneMinuteAfterLastMinute ==
    UsageDone =>
        \A d \in DOMAIN result.ret.usage :
            /\ ClosedAtEndOfDay(d, (d + 1) * SecondsPerDay + (call.start_dt % SecondsPerMinute))
            /\ \A i \in RecordedOn(d) :
                  i.end <= (d + 1) * SecondsPerDay + (call.start_dt % SecondsPerMinute)

RECURSIVE SumLastWrites(_, _)
\* the sum of a field over the intervals assigned in ws, leaving out those
\* followed by an assignment under the same name
SumLastWrites(ws, field) ==
    IF ws = <<>> THEN 0
    ELSE (IF \E k \in 2..Len(ws) : ws[k].key = Head(ws).key
          THEN 0 ELSE Head(ws).value[field])
           + SumLastWrites(Tail(ws), field)

\* C18: when two intervals of one day are opened under the same period name,
\* the running_periods of that day holds only the later one under that name:
\* the earlier interval is not in the map and its billing is not part of the
\* day's totals.
C18_LaterIntervalReplacesEarlier ==
    UsageDone =>
        \A d \in DOMAIN result.ret.usage :
            LET ws == result.writes[d]
                day == result.ret.usage[d]
            IN  \A i, j \in 1..Len(ws) :
                    ( /\ i < j
                      /\ ws[i].key = ws[j].key
                      /\ \A k \in (j + 1)..Len(ws) : ws[k].key # ws[j].key )
                    => /\ day.running_periods[ws[j].key] = ws[j].value
                       /\ \A k \in DOMAIN day.running_periods :
                             day.running_periods[k] # ws[i].value
                       /\ day.billing_seconds = SumLastWrites(ws, "billing_seconds")
                       /\ day.billing_hours = SumLastWrites(ws, "billing_hours")

\* C18 witness: a day on which a period ran from 00:00 to 09:00 and again from
\* 17:00 has only the second interval under that period's name, and its totals
\* are those of the second interval.
C18_Witness ==
    /\ UsageDone
    /\ \E d \in DOMAIN result.ret.usage :
          LET ws == result.writes[d]
              day == result.ret.usage[d]
          IN  /\ Len(ws) = 2
              /\ ws[1].key = ws[2].key
              /\ ws[1].value.end < ws[2].value.begin
              /\ DOMAIN day.running_periods = {ws[2].key}
              /\ day.running_periods[ws[2].key] = ws[2].value
              /\ day.billing_seconds = ws[2].value.billing_seconds
              /\ day.billing_seconds
                    < ws[1].value.billing_seconds + ws[2].value.billing_seconds

\* the intervals kept for day d lie between the instants from and to, last at
\* least a minute, are billed their length and do not overlap; the day's
\* billing_seconds are at most those of a day
KeptWithin(d, from, to) ==
    LET kept == result.ret.usage[d].running_periods
    IN  /\ \A k \in DOMAIN kept :
              /\ from <= kept[k].begin
              /\ kept[k].begin < kept[k].end
              /\ kept[k].end <= to
              /\ kept[k].end - kept[k].begin >= 60
              /\ kept[k].billing_seconds = kept[k].end - kept[k].begin
        /\ \A k1, k2 \in DOMAIN kept :
              k1 # k2 => (kept[k1].end <= kept[k2].begin \/ kept[k2].end <= kept[k1].begin)
        /\ result.ret.usage[d].billing_seconds <= 86400

\* C19: in every usage record get_usage returns, each interval kept for day d
\* begins at or after 00:00 of d, ends after it begins and at or before 00:00 of
\* d + 1, and lasts at least 60 seconds; the intervals of a day do not overlap;
\* so billing_seconds is the length of the interval and a day's total is at
\* most 86400.
C19_WithinTheDay ==
    UsageDone =>
        \A d \in DOMAIN result.ret.usage :
            KeptWithin(d, d * SecondsPerDay, (d + 1) * SecondsPerDay)

\* The intervals of day d lie within the 24 hours that begin at 00:00 of d plus
\* the seconds of the start instant.
WithinTheDayOfTheStartSeconds ==
    UsageDone =>
        \A d \in DOMAIN result.ret.usage :
            KeptWithin(d, d * SecondsPerDay + (call.start_dt % SecondsPerMinute),
                       (d + 1) * SecondsPerDay + (call.start_dt % SecondsPerMinute))

---------------------------------------------------------------------------
(* get_usage: the instance type of an interval *)

\* the instancetype of the entry of self.periods whose period has this name,
\* None when there is no such entry (the name "override_status")
TypeOverrideOf(name) ==
    IF \E i \in DOMAIN periods.items : periods.items[i].period.name = name
    THEN periods.items[CHOOSE i \in DOMAIN periods.items :
                           periods.items[i].period.name = name].instancetype
    ELSE None

\* C20: when get_usage is given an instance with allow_resize true, the
\* instance type of every interval descriptor is the instancetype of the period
\* under whose name the interval is recorded (the one that opened it), absent
\* only when that period has none, for the intervals closed by a stopped
\* instant and for those closed at the end of the day.
C20_TypeOfOpeningPeriod ==
    (UsageDone /\ call.instance # NoInstance /\ call.instance.allow_resize) =>
        \A d \in DOMAIN result.ret.usage :
            /\ \A j \in 1..Len(result.writes[d]) :
                  result.writes[d][j].value.instancetype
                      = TypeOverrideOf(result.writes[d][j].key)
            /\ \A k \in DOMAIN result.ret.usage[d].running_periods :
                  result.ret.usage[d].running_periods[k].instancetype = TypeOverrideOf(k)

\* The instance type of a descriptor is the one resolved at the instant that
\* closed the interval, or at the last instant of the day for the interval
\* closed at the end of the day.
TypeOfClosingInstant ==
    UsageDone =>
        \A d \in DOMAIN result.ret.usage :
            LET ws == result.writes[d]
            IN  \A j \in 1..Len(ws) :
                    ws[j].value.instancetype =
                        IF ws[j].at = "walk"
                        THEN Resolved(d, Closings(d)[j]).instancetype
                        ELSE Resolved(d, Len(DayInstants(d))).instancetype

====
